---- MODULE Spec2Model ----
(***************************************************************************)
(* Model of feature/FeatureIPSetting.go (xe-guest-utilities): the          *)
(* static-IP-setting feature of the guest agent.  Run() registers a watch  *)
(* on xenserver/device/vif and starts one goroutine that, forever,         *)
(* advertises the feature, waits for a watch event, scans the interfaces   *)
(* published under the control key and waits for a tick of a 4 second      *)
(* ticker.                                                                 *)
(*                                                                         *)
(* Strings whose characters the code inspects (directory listings,         *)
(* addresses, gateways) are sequences of one-character strings; keys,      *)
(* which the code only concatenates, are TLA+ strings.                     *)
(***************************************************************************)
EXTENDS Integers, Sequences, FiniteSets, TLC

(***************************************************************************)
(* Program constants.                                                      *)
(***************************************************************************)
advertiseKey == "control/feature-static-ip-setting"
controlKey == "xenserver/device/vif"
token == "FeatureIPSetting"
macSubKey == "/static-ip-setting/mac"
ipenabledSubKey == "/static-ip-setting/enabled"
ipv6enabledSubKey == "/static-ip-setting/enabled6"
errorCodeSubKey == "/static-ip-setting/error-code"
errorMsgSubKey == "/static-ip-setting/error-msg"
addressSubKey == "/static-ip-setting/address"
gatewaySubKey == "/static-ip-setting/gateway"
address6SubKey == "/static-ip-setting/address6"
gateway6SubKey == "/static-ip-setting/gateway6"

\* OSType; OTHER is a reserved word of TLA+, hence OTHER_OS.
OTHER_OS == 0
CENTOS == 1

\* Period of the ticker of the loop, in seconds: time.Tick(4 * time.Second).
TickPeriod == 4

IPv4len == 4
IPv6len == 16

(***************************************************************************)
(* Bounds of the model.                                                    *)
(***************************************************************************)
\* Longest raw directory listing, in characters, of the discovery check.
MaxLen == 4
\* Most change notifications queued in the store client at one time.
MaxPending == 2

\* The calls of Run() on one instance that register the watch.
MaxRuns == 2

(***************************************************************************)
(* Characters and strings.                                                 *)
(***************************************************************************)
NUL == "\\x00"

\* The string spelled by a sequence of characters.
RECURSIVE Str(_)
Str(cs) == IF cs = <<>> THEN "" ELSE Head(cs) \o Str(Tail(cs))

\* First index of character c in s, 0 when absent: strings.IndexByte + 1.
RECURSIVE IndexFrom(_, _, _)
IndexFrom(s, c, i) ==
    IF i > Len(s) THEN 0
    ELSE IF s[i] = c THEN i
    ELSE IndexFrom(s, c, i + 1)

IndexByte(s, c) == IndexFrom(s, c, 1)

\* strings.Split(s, sep) for a one-character separator: always at least one
\* token, empty tokens kept.
RECURSIVE Split(_, _)
Split(s, sep) ==
    LET i == IndexByte(s, sep)
    IN  IF i = 0 THEN <<s>>
        ELSE <<SubSeq(s, 1, i - 1)>> \o Split(SubSeq(s, i + 1, Len(s)), sep)

(***************************************************************************)
(* Parsing of addresses, as package net does it (net.ParseIP and           *)
(* net.ParseCIDR, called by ConfigStaticIP).  An IP is its sequence of     *)
(* bytes, 4 for IPv4 and 16 for IPv6; Nil is the nil IP.                   *)
(***************************************************************************)
Nil == <<>>

DecDigits == ("0" :> 0) @@ ("1" :> 1) @@ ("2" :> 2) @@ ("3" :> 3) @@ ("4" :> 4)
             @@ ("5" :> 5) @@ ("6" :> 6) @@ ("7" :> 7) @@ ("8" :> 8) @@ ("9" :> 9)

HexDigits == DecDigits @@ ("a" :> 10) @@ ("b" :> 11) @@ ("c" :> 12)
             @@ ("d" :> 13) @@ ("e" :> 14) @@ ("f" :> 15)

\* Largest number the digit scanners accept: const big = 0xFFFFFF.
big == 16777215

\* Scan the leading digits of s in the given base: the number, the count of
\* characters consumed and whether a number was read.
RECURSIVE ScanDigits(_, _, _, _, _)
ScanDigits(s, digits, base, n, i) ==
    IF i < Len(s) /\ s[i + 1] \in DOMAIN digits
    THEN LET m == n * base + digits[s[i + 1]]
         IN  IF m >= big THEN [n |-> big, i |-> i, ok |-> FALSE]
             ELSE ScanDigits(s, digits, base, m, i + 1)
    ELSE IF i = 0 THEN [n |-> 0, i |-> 0, ok |-> FALSE]
    ELSE [n |-> n, i |-> i, ok |-> TRUE]

dtoi(s) == ScanDigits(s, DecDigits, 10, 0, 0)

xtoi(s) == ScanDigits(s, HexDigits, 16, 0, 0)

Drop(s, k) == SubSeq(s, k + 1, Len(s))

\* net.parseIPv4: four decimal fields of at most 255 separated by dots.
RECURSIVE parseIPv4Loop(_, _)
parseIPv4Loop(s, p) ==
    IF Len(p) = IPv4len THEN (IF Len(s) # 0 THEN Nil ELSE p)
    ELSE IF Len(s) = 0 THEN Nil
    ELSE IF Len(p) > 0 /\ s[1] # "." THEN Nil
    ELSE LET t == IF Len(p) > 0 THEN Tail(s) ELSE s
             d == dtoi(t)
         IN  IF ~d.ok \/ d.n > 255 THEN Nil
             ELSE parseIPv4Loop(Drop(t, d.i), Append(p, d.n))

parseIPv4(s) == parseIPv4Loop(s, <<>>)

Zeros(k) == [j \in 1..k |-> 0]

\* The loop of net.parseIPv6: groups of hexadecimal digits separated by
\* colons, at most one "::" and possibly a trailing dotted IPv4 address.
\* ip is the bytes parsed so far, ellipsis the position of "::" or -1.
RECURSIVE parseIPv6Loop(_, _, _)
parseIPv6Loop(s, ip, ellipsis) ==
    IF Len(ip) >= IPv6len THEN [ok |-> TRUE, s |-> s, ip |-> ip, ellipsis |-> ellipsis]
    ELSE
    LET x == xtoi(s)
        bad == [ok |-> FALSE, s |-> s, ip |-> ip, ellipsis |-> ellipsis]
    IN  IF ~x.ok \/ x.n > 65535 THEN bad
        ELSE IF x.i < Len(s) /\ s[x.i + 1] = "."
        THEN IF ellipsis < 0 /\ Len(ip) # IPv6len - IPv4len THEN bad
             ELSE IF Len(ip) + IPv4len > IPv6len THEN bad
             ELSE LET ip4 == parseIPv4(s)
                  IN  IF ip4 = Nil THEN bad
                      ELSE [ok |-> TRUE, s |-> <<>>, ip |-> ip \o ip4,
                            ellipsis |-> ellipsis]
        ELSE
        LET ip2 == ip \o <<x.n \div 256, x.n % 256>>
            s2 == Drop(s, x.i)
        IN  IF Len(s2) = 0
            THEN [ok |-> TRUE, s |-> s2, ip |-> ip2, ellipsis |-> ellipsis]
            ELSE IF s2[1] # ":" \/ Len(s2) = 1 THEN bad
            ELSE LET s3 == Tail(s2)
                 IN  IF s3[1] = ":"
                     THEN IF ellipsis >= 0 THEN bad
                          ELSE IF Len(s3) = 1
                          THEN [ok |-> TRUE, s |-> <<>>, ip |-> ip2,
                                ellipsis |-> Len(ip2)]
                          ELSE parseIPv6Loop(Tail(s3), ip2, Len(ip2))
                     ELSE parseIPv6Loop(s3, ip2, ellipsis)

parseIPv6(s) ==
    LET lead == Len(s) >= 2 /\ s[1] = ":" /\ s[2] = ":"
        s1 == IF lead THEN Drop(s, 2) ELSE s
    IN  IF lead /\ Len(s1) = 0 THEN Zeros(IPv6len)
        ELSE LET r == parseIPv6Loop(s1, <<>>, IF lead THEN 0 ELSE -1)
             IN  IF ~r.ok \/ Len(r.s) # 0 THEN Nil
                 ELSE IF Len(r.ip) < IPv6len
                 THEN IF r.ellipsis < 0 THEN Nil
                      ELSE SubSeq(r.ip, 1, r.ellipsis)
                           \o Zeros(IPv6len - Len(r.ip))
                           \o SubSeq(r.ip, r.ellipsis + 1, Len(r.ip))
                 ELSE IF r.ellipsis >= 0 THEN Nil
                 ELSE r.ip

\* net.ParseIP: the first '.' or ':' of s decides the parser.
RECURSIVE ParseIPFrom(_, _)
ParseIPFrom(s, i) ==
    IF i > Len(s) THEN Nil
    ELSE IF s[i] = "." THEN parseIPv4(s)
    ELSE IF s[i] = ":" THEN parseIPv6(s)
    ELSE ParseIPFrom(s, i + 1)

ParseIP(s) == ParseIPFrom(s, 1)

Pow2(k) == IF k = 0 THEN 1 ELSE IF k = 1 THEN 2 ELSE IF k = 2 THEN 4
           ELSE IF k = 3 THEN 8 ELSE IF k = 4 THEN 16 ELSE IF k = 5 THEN 32
           ELSE IF k = 6 THEN 64 ELSE IF k = 7 THEN 128 ELSE 256

\* ip.Mask(net.CIDRMask(ones, 8*len(ip))): the first ones bits of ip kept.
Mask(ip, ones) ==
    [j \in 1..Len(ip) |->
        LET keep == IF ones >= 8 * j THEN 8
                    ELSE IF ones <= 8 * (j - 1) THEN 0
                    ELSE ones - 8 * (j - 1)
        IN  (ip[j] \div Pow2(8 - keep)) * Pow2(8 - keep)]

\* net.ParseCIDR: address "/" prefix length; the IP and its network.
ParseCIDR(s) ==
    LET i == IndexByte(s, "/")
        bad == [ok |-> FALSE, ip |-> Nil, net |-> Nil, ones |-> 0]
    IN  IF i = 0 THEN bad
        ELSE LET addr == SubSeq(s, 1, i - 1)
                 mask == Drop(s, i)
                 ip4 == parseIPv4(addr)
                 ip == IF ip4 # Nil THEN ip4 ELSE parseIPv6(addr)
                 iplen == IF ip4 # Nil THEN IPv4len ELSE IPv6len
                 d == dtoi(mask)
             IN  IF ip = Nil \/ ~d.ok \/ d.i # Len(mask) \/ d.n < 0
                    \/ d.n > 8 * iplen
                 THEN bad
                 ELSE [ok |-> TRUE, ip |-> ip, net |-> Mask(ip, d.n),
                       ones |-> d.n]

(***************************************************************************)
(* State.                                                                  *)
(***************************************************************************)
VARIABLES
    Enabled,      \* FeatureIPSetting.Enabled, set at construction
    runPc,        \* position of the caller inside Run()
    runErr,       \* what Run() returned: "none" (not yet), "nil" or "err"
    watches,      \* number of watches registered on controlKey
    loopPc,       \* position of the goroutine started by Run()
    osType,       \* osType of the goroutine
    pending,      \* watch events queued in the store client for controlKey
    tickPending,  \* the channel of time.Tick holds a tick (capacity one)
    phase,        \* seconds since the ticker was created or last fired
    sinceScan,    \* seconds since WatchEvent last returned ok, capped at TickPeriod
    advWrite,     \* the Write call Enable() made in this iteration
    writeErr,     \* that Write call failed; Enable() drops the error
    listing,      \* what Client.Directory returned to GetChildrens
    childrens,    \* childrens of the scan in progress
    idx,          \* index in childrens of the interface being evaluated
    vif,          \* the evaluation of the interface childrens[idx]
    cfg,          \* the ConfigStaticIP invocation in progress
    calls,        \* the client operations called so far
    written,      \* the keys passed to Client.Write so far
    loops,        \* the goroutines started by Run() so far; none ever returns
    unseen        \* a change was notified after the last Directory call

vars == <<Enabled, runPc, runErr, watches, loopPc, osType, pending, tickPending,
          phase, sinceScan, advWrite, writeErr, listing, childrens, idx, vif,
          cfg, calls, written, loops, unseen>>

runVars == <<runPc, runErr, watches>>
timeVars == <<tickPending, phase, sinceScan>>
scanVars == <<listing, childrens, idx, vif, cfg>>

(***************************************************************************)
(* What the store client returns.  A read returns a value or an error;     *)
(* the store belongs to the host, which may change it at any moment, so    *)
(* every call draws its result from the values below.                      *)
(***************************************************************************)
StrResult(v) == [read |-> TRUE, err |-> FALSE, val |-> v]
StrErr == [read |-> TRUE, err |-> TRUE, val |-> ""]
StrUnread == [read |-> FALSE, err |-> FALSE, val |-> ""]

SeqResult(v) == [read |-> TRUE, err |-> FALSE, val |-> v]
SeqErr == [read |-> TRUE, err |-> TRUE, val |-> <<>>]
SeqUnread == [read |-> FALSE, err |-> FALSE, val |-> <<>>]

MacResults == {StrResult("0a:1b:2c:3d:4e:5f"), StrErr}

EnabledResults == {StrResult("1"), StrResult("0"), StrResult("true"), StrErr}

\* "10.0.0.2/24", "fe80::2/64", "not-an-ip"
AddressResults ==
    { SeqResult(<<"1", "0", ".", "0", ".", "0", ".", "2", "/", "2", "4">>),
      SeqResult(<<"f", "e", "8", "0", ":", ":", "2", "/", "6", "4">>),
      SeqResult(<<"n", "o", "t", "-", "a", "n", "-", "i", "p">>),
      SeqErr }

\* "10.0.0.1", "fe80::1", "10.0.0.256"
GatewayResults ==
    { SeqResult(<<"1", "0", ".", "0", ".", "0", ".", "1">>),
      SeqResult(<<"f", "e", "8", "0", ":", ":", "1">>),
      SeqResult(<<"1", "0", ".", "0", ".", "0", ".", "2", "5", "6">>),
      SeqErr }

\* Directory listings of controlKey: "", "0\x00" and "0\x00\x001\x00".
DirResults ==
    { SeqErr, SeqResult(<<>>), SeqResult(<<"0", NUL>>),
      SeqResult(<<"0", NUL, NUL, "1", NUL>>) }

\* The contents of /var/cache/xe-linux-distribution as GetCurrentOSType sees
\* them: the file cannot be opened, or its key=value lines after trimming.
Descriptors ==
    { [open |-> FALSE, lines |-> <<>>],
      [open |-> TRUE, lines |-> <<>>],
      [open |-> TRUE, lines |-> <<[k |-> "os_name", v |-> "CentOS Linux"],
                                  [k |-> "os_distro", v |-> "centos"]>>],
      [open |-> TRUE, lines |-> <<[k |-> "os_distro", v |-> "ubuntu"]>>] }

GetCurrentOSType(descriptor) ==
    IF ~descriptor.open THEN OTHER_OS
    ELSE IF \E i \in DOMAIN descriptor.lines :
                descriptor.lines[i].k = "os_distro" /\ descriptor.lines[i].v = "centos"
    THEN CENTOS
    ELSE OTHER_OS

(***************************************************************************)
(* GetChildrens: the interface paths of a directory listing.               *)
(***************************************************************************)
\* AppendChildrens without the test for an empty subkey.
RECURSIVE AppendChildrensAll(_, _)
AppendChildrensAll(childs, subkeys) ==
    IF subkeys = <<>> THEN childs
    ELSE AppendChildrensAll(Append(childs, controlKey \o "/" \o Str(Head(subkeys))),
                            Tail(subkeys))

RECURSIVE AppendChildrens(_, _)
AppendChildrens(childs, subkeys) ==
    IF subkeys = <<>> THEN childs
    ELSE IF Len(Head(subkeys)) # 0
    THEN AppendChildrens(Append(childs, controlKey \o "/" \o Str(Head(subkeys))),
                         Tail(subkeys))
    ELSE AppendChildrens(childs, Tail(subkeys))

\* GetChildrens that returns the key itself when Directory failed.
GetChildrensKeyOnError(dir) ==
    IF dir.err THEN <<controlKey>>
    ELSE AppendChildrens(<<>>, Split(dir.val, NUL))

GetChildrens(dir) ==
    IF dir.err THEN <<>>
    ELSE AppendChildrens(<<>>, Split(dir.val, NUL))

(***************************************************************************)
(* ConfigStaticIP: the keys it reads and the lines it logs.                *)
(***************************************************************************)
AddressKey(vifKey, isIPv6) ==
    IF isIPv6 THEN vifKey \o address6SubKey ELSE vifKey \o addressSubKey

\* GatewayKey that names the IPv4 gateway key for both families.
GatewayKeyOfIPv4(vifKey, isIPv6) == vifKey \o gatewaySubKey

GatewayKey(vifKey, isIPv6) ==
    IF isIPv6 THEN vifKey \o gateway6SubKey ELSE vifKey \o gatewaySubKey

\* net.ParseCIDR and net.ParseIP on the values the store returns, each parsed
\* once.
CIDROf == [s \in {r.val : r \in AddressResults} |-> ParseCIDR(s)]

IPOf == [s \in {r.val : r \in GatewayResults} |-> ParseIP(s)]

\* AddressLine that takes only IPv4 addresses.
AddressLineIPv4Only(address, os) ==
    IF address.err
    THEN [what |-> "SetIPFailed", ip |-> Nil, net |-> Nil, os |-> os]
    ELSE LET c == CIDROf[address.val]
         IN  IF c.ok /\ Len(c.ip) = IPv4len
             THEN [what |-> "SetIP", ip |-> c.ip, net |-> c.net, os |-> os]
             ELSE [what |-> "ParseCIDRFailed", ip |-> Nil, net |-> Nil, os |-> os]

\* The line logged for the address read: "Set IP" with the parsed address and
\* network for a valid CIDR, a diagnostic otherwise.
AddressLine(address, os) ==
    IF address.err
    THEN [what |-> "SetIPFailed", ip |-> Nil, net |-> Nil, os |-> os]
    ELSE LET c == CIDROf[address.val]
         IN  IF c.ok
             THEN [what |-> "SetIP", ip |-> c.ip, net |-> c.net, os |-> os]
             ELSE [what |-> "ParseCIDRFailed", ip |-> Nil, net |-> Nil, os |-> os]

\* The line logged for the gateway read.
GatewayLine(gateway, os) ==
    IF gateway.err
    THEN [what |-> "SetGatewayFailed", ip |-> Nil, net |-> Nil, os |-> os]
    ELSE LET gatewayAddress == IPOf[gateway.val]
         IN  IF gatewayAddress # Nil
             THEN [what |-> "SetGateway", ip |-> gatewayAddress, net |-> Nil,
                   os |-> os]
             ELSE [what |-> "InvalidGateway", ip |-> Nil, net |-> Nil, os |-> os]

NoVif == [path |-> "", mac |-> StrUnread, en |-> [f \in BOOLEAN |-> StrUnread],
          applied |-> <<>>, reads |-> <<>>]

NoCfg == [active |-> FALSE, vifKey |-> "", mac |-> "", isIPv6 |-> FALSE,
          osType |-> OTHER_OS, address |-> SeqUnread, gateway |-> SeqUnread,
          log |-> <<>>, reads |-> <<>>, ret |-> "none"]

NoWrite == [key |-> "", val |-> ""]

(***************************************************************************)
(* Initial state: the feature constructed by NewFeatureIPSetting, Run()    *)
(* not yet called.                                                         *)
(***************************************************************************)
Init ==
    /\ Enabled \in BOOLEAN
    /\ runPc = "idle"
    /\ runErr = "none"
    /\ watches = 0
    /\ loopPc = "none"
    /\ osType = OTHER_OS
    /\ pending = 0
    /\ tickPending = FALSE
    /\ phase = 0
    /\ sinceScan = TickPeriod
    /\ advWrite = NoWrite
    /\ writeErr = FALSE
    /\ listing = SeqUnread
    /\ childrens = <<>>
    /\ idx = 0
    /\ vif = NoVif
    /\ cfg = NoCfg
    /\ calls = {}
    /\ written = {}
    /\ loops = 0
    /\ unseen = FALSE

(***************************************************************************)
(* Run(): register the watch, start the goroutine, return.                 *)
(***************************************************************************)
\* RunWatch with the error logged but not returned: the goroutine starts anyway.
RunWatchIgnoresError ==
    /\ runPc = "idle"
    /\ calls' = calls \cup {"Watch"}
    /\ \E ok \in BOOLEAN :
          /\ watches' = IF ok THEN watches + 1 ELSE watches
          /\ runPc' = "go"
          /\ runErr' = IF ok THEN runErr ELSE "err"
    /\ UNCHANGED <<Enabled, written, loops, loopPc, osType, pending, timeVars, advWrite,
                   writeErr, scanVars, unseen>>

\* err := f.Client.Watch(controlKey, token); on an error Run returns it.
RunWatch ==
    /\ runPc = "idle"
    /\ calls' = calls \cup {"Watch"}
    /\ \E ok \in BOOLEAN :
          IF ok
          THEN /\ watches' = watches + 1
               /\ runPc' = "go"
               /\ runErr' = runErr
          ELSE /\ watches' = watches
               /\ runPc' = "done"
               /\ runErr' = "err"
    /\ UNCHANGED <<Enabled, written, loops, loopPc, osType, pending, timeVars, advWrite,
                   writeErr, scanVars, unseen>>

\* go func() { ... }()
RunGo ==
    /\ runPc = "go"
    /\ runPc' = "return"
    /\ loops' = loops + 1
    /\ loopPc' = IF loopPc = "none" THEN "start" ELSE loopPc
    /\ UNCHANGED <<Enabled, written, runErr, watches, osType, pending, timeVars,
                   advWrite, writeErr, scanVars, calls, unseen>>

\* RunReturn that waits until the goroutine has advertised once.
RunReturnAfterAdvertise ==
    /\ runPc = "return"
    /\ loopPc \notin {"start", "enable"}
    /\ runPc' = "done"
    /\ runErr' = "nil"
    /\ UNCHANGED <<Enabled, written, loops, watches, loopPc, osType, pending, timeVars,
                   advWrite, writeErr, scanVars, calls, unseen>>

\* return nil
RunReturn ==
    /\ runPc = "return"
    /\ runPc' = "done"
    /\ runErr' = "nil"
    /\ UNCHANGED <<Enabled, written, loops, watches, loopPc, osType, pending, timeVars,
                   advWrite, writeErr, scanVars, calls, unseen>>

(***************************************************************************)
(* The goroutine.                                                          *)
(***************************************************************************)
\* osType := GetCurrentOSType(); ticker := time.Tick(4 * time.Second)
LoopStart ==
    /\ loopPc = "start"
    /\ \E d \in Descriptors : osType' = GetCurrentOSType(d)
    /\ tickPending' = FALSE
    /\ phase' = 0
    /\ loopPc' = "enable"
    /\ UNCHANGED <<Enabled, written, loops, runVars, pending, sinceScan, advWrite, writeErr,
                   scanVars, calls, unseen>>

\* Enable with the branches of f.Enabled swapped.
EnableSwapped ==
    /\ loopPc = "enable"
    /\ advWrite' = [key |-> advertiseKey, val |-> IF Enabled THEN "0" ELSE "1"]
    /\ \E ok \in BOOLEAN : writeErr' = ~ok
    /\ calls' = calls \cup {"Write"}
    /\ written' = written \cup {advertiseKey}
    /\ loopPc' = "watchevent"
    /\ UNCHANGED <<Enabled, loops, runVars, osType, pending, timeVars, scanVars, unseen>>

\* f.Enable(): one Write of the advertise key, its error dropped.
Enable ==
    /\ loopPc = "enable"
    /\ advWrite' = [key |-> advertiseKey, val |-> IF Enabled THEN "1" ELSE "0"]
    /\ \E ok \in BOOLEAN : writeErr' = ~ok
    /\ calls' = calls \cup {"Write"}
    /\ written' = written \cup {advertiseKey}
    /\ loopPc' = "watchevent"
    /\ UNCHANGED <<Enabled, loops, runVars, osType, pending, timeVars, scanVars, unseen>>

\* f.Client.WatchEvent(controlKey) is called and blocks.
WatchEventCall ==
    /\ loopPc = "watchevent"
    /\ calls' = calls \cup {"WatchEvent"}
    /\ loopPc' = "await"
    /\ UNCHANGED <<Enabled, written, loops, runVars, osType, pending, timeVars, advWrite,
                   writeErr, scanVars, unseen>>

\* WatchEvent returns a queued event, ok: the scan starts.
WatchEventOk ==
    /\ loopPc = "await"
    /\ pending > 0
    /\ pending' = pending - 1
    /\ sinceScan' = 0
    /\ loopPc' = "list"
    /\ UNCHANGED <<Enabled, written, loops, runVars, osType, tickPending, phase, advWrite,
                   writeErr, scanVars, calls, unseen>>

\* WatchEventFail with the goroutine returning when WatchEvent is not ok.
WatchEventFailExits ==
    /\ loopPc = "await"
    /\ writeErr' = FALSE
    /\ loopPc' = "exited"
    /\ UNCHANGED <<Enabled, written, loops, runVars, osType, pending, timeVars, advWrite,
                   scanVars, calls, unseen>>

\* WatchEventFail with the select inside the if: no tick taken without a scan.
WatchEventFailSkipsTick ==
    /\ loopPc = "await"
    /\ writeErr' = FALSE
    /\ advWrite' = NoWrite
    /\ loopPc' = "enable"
    /\ UNCHANGED <<Enabled, written, loops, runVars, osType, pending, timeVars,
                   scanVars, calls, unseen>>

\* WatchEvent returns not ok: no scan in this iteration.
WatchEventFail ==
    /\ loopPc = "await"
    /\ writeErr' = FALSE
    /\ loopPc' = "tick"
    /\ UNCHANGED <<Enabled, written, loops, runVars, osType, pending, timeVars, advWrite,
                   scanVars, calls, unseen>>

\* childrens := f.GetChildrens(controlKey), its Directory call drawn from dirs.
ScanList(dirs) ==
    /\ loopPc = "list"
    /\ \E dir \in dirs :
          /\ listing' = dir
          /\ childrens' = GetChildrens(dir)
    /\ idx' = 0
    /\ calls' = calls \cup {"Directory"}
    /\ unseen' = FALSE
    /\ writeErr' = FALSE
    /\ loopPc' = "next"
    /\ UNCHANGED <<Enabled, written, loops, runVars, osType, pending, timeVars, advWrite,
                   vif, cfg>>

\* LoopNext that ends the scan after the first interface of the listing.
LoopNextFirstOnly ==
    /\ loopPc = "next"
    /\ vif' = NoVif
    /\ IF idx < Len(childrens) /\ idx < 1
       THEN /\ idx' = idx + 1
            /\ loopPc' = "mac"
            /\ UNCHANGED <<listing, childrens>>
       ELSE /\ idx' = 0
            /\ listing' = SeqUnread
            /\ childrens' = <<>>
            /\ loopPc' = "tick"
    /\ UNCHANGED <<Enabled, written, loops, runVars, osType, pending, timeVars, advWrite,
                   writeErr, cfg, calls, unseen>>

\* LoopNext with the listing and the last interface kept after the scan.
LoopNextKeepsListing ==
    /\ loopPc = "next"
    /\ IF idx < Len(childrens)
       THEN /\ idx' = idx + 1
            /\ vif' = NoVif
            /\ loopPc' = "mac"
       ELSE /\ idx' = 0
            /\ vif' = vif
            /\ loopPc' = "tick"
    /\ UNCHANGED <<Enabled, written, loops, runVars, osType, pending, timeVars, advWrite,
                   writeErr, listing, childrens, cfg, calls, unseen>>

\* for _, subkey := range childrens: the next interface, or the end of the scan.
LoopNext ==
    /\ loopPc = "next"
    /\ vif' = NoVif
    /\ IF idx < Len(childrens)
       THEN /\ idx' = idx + 1
            /\ loopPc' = "mac"
            /\ UNCHANGED <<listing, childrens>>
       ELSE /\ idx' = 0
            /\ listing' = SeqUnread
            /\ childrens' = <<>>
            /\ loopPc' = "tick"
    /\ UNCHANGED <<Enabled, written, loops, runVars, osType, pending, timeVars, advWrite,
                   writeErr, cfg, calls, unseen>>

\* ReadMac with break for continue: a failed MAC read ends the scan.
ReadMacBreaks(macs) ==
    /\ loopPc = "mac"
    /\ LET subkey == childrens[idx]
           macKey == subkey \o macSubKey
       IN  \E mac \in macs :
              /\ vif' = [NoVif EXCEPT !.path = subkey, !.mac = mac,
                                      !.reads = <<macKey>>]
              /\ IF mac.err
                 THEN /\ loopPc' = "tick"
                      /\ idx' = 0
                      /\ listing' = SeqUnread
                      /\ childrens' = <<>>
                 ELSE /\ loopPc' = "enabled"
                      /\ UNCHANGED <<listing, childrens, idx>>
    /\ calls' = calls \cup {"Read"}
    /\ UNCHANGED <<Enabled, written, loops, runVars, osType, pending, timeVars, advWrite,
                   writeErr, cfg, unseen>>

\* mac, err := f.Client.Read(macKey); on an error the interface is skipped.
ReadMac(macs) ==
    /\ loopPc = "mac"
    /\ LET subkey == childrens[idx]
           macKey == subkey \o macSubKey
       IN  \E mac \in macs :
              /\ vif' = [NoVif EXCEPT !.path = subkey, !.mac = mac,
                                      !.reads = <<macKey>>]
              /\ loopPc' = IF mac.err THEN "next" ELSE "enabled"
    /\ calls' = calls \cup {"Read"}
    /\ UNCHANGED <<Enabled, written, loops, runVars, osType, pending, timeVars, advWrite,
                   writeErr, listing, childrens, idx, cfg, unseen>>

\* AfterFamily with IPv6 evaluated only in an else branch of IPv4.
AfterFamilyElse(isIPv6) == "next"

\* The position after the evaluation of one family of the interface.
AfterFamily(isIPv6) == IF isIPv6 THEN "next" ELSE "enabled6"

\* Invokes with every value but "0" taken as enabled.
InvokesUnlessZero(ipenabled) == ~ipenabled.err /\ ipenabled.val # "0"

\* ConfigStaticIP is invoked when the enabled key was read and is "1".
Invokes(ipenabled) == ~ipenabled.err /\ ipenabled.val = "1"

\* ipenabled, err := f.Client.Read(subkey + ipenabledSubKey) for IPv4 and
\* ipv6enabledSubKey for IPv6; "1" invokes ConfigStaticIP.
ReadEnabled(isIPv6, enableds) ==
    /\ loopPc = IF isIPv6 THEN "enabled6" ELSE "enabled"
    /\ LET subkey == childrens[idx]
           key == subkey \o (IF isIPv6 THEN ipv6enabledSubKey ELSE ipenabledSubKey)
       IN  \E ipenabled \in enableds :
              IF Invokes(ipenabled)
              THEN /\ vif' = [vif EXCEPT !.en[isIPv6] = ipenabled,
                                         !.reads = Append(@, key),
                                         !.applied = Append(@, isIPv6)]
                   /\ cfg' = [NoCfg EXCEPT !.active = TRUE, !.vifKey = subkey,
                                           !.mac = vif.mac.val,
                                           !.isIPv6 = isIPv6, !.osType = osType]
                   /\ loopPc' = "address"
              ELSE /\ vif' = [vif EXCEPT !.en[isIPv6] = ipenabled,
                                         !.reads = Append(@, key)]
                   /\ cfg' = cfg
                   /\ loopPc' = AfterFamily(isIPv6)
    /\ calls' = calls \cup {"Read"}
    /\ UNCHANGED <<Enabled, written, loops, runVars, osType, pending, timeVars, advWrite,
                   writeErr, listing, childrens, idx, unseen>>

\* ConfigAddress that reports a failed address under the error-code key.
ConfigAddressWritesErrorCode(addresses) ==
    /\ loopPc = "address"
    /\ \E address \in addresses :
          /\ cfg' = [cfg EXCEPT !.address = address,
                                !.reads = Append(@, AddressKey(cfg.vifKey, cfg.isIPv6)),
                                !.log = Append(@, AddressLine(address, cfg.osType))]
          /\ written' = IF AddressLine(address, cfg.osType).what = "SetIP"
                        THEN written
                        ELSE written \cup {cfg.vifKey \o errorCodeSubKey}
    /\ calls' = calls \cup {"Read"}
    /\ loopPc' = "gateway"
    /\ UNCHANGED <<Enabled, loops, runVars, osType, pending, timeVars, advWrite,
                   writeErr, listing, childrens, idx, vif, unseen>>

\* ConfigStaticIP: address, err := f.Client.Read(addressKey) and its line.
ConfigAddress(addresses) ==
    /\ loopPc = "address"
    /\ \E address \in addresses :
          cfg' = [cfg EXCEPT !.address = address,
                             !.reads = Append(@, AddressKey(cfg.vifKey, cfg.isIPv6)),
                             !.log = Append(@, AddressLine(address, cfg.osType))]
    /\ calls' = calls \cup {"Read"}
    /\ loopPc' = "gateway"
    /\ UNCHANGED <<Enabled, written, loops, runVars, osType, pending, timeVars, advWrite,
                   writeErr, listing, childrens, idx, vif, unseen>>

\* ConfigGateway that is skipped, with an error returned, after a bad address.
ConfigGatewayAfterGoodAddress(gateways) ==
    /\ loopPc = "gateway"
    /\ IF cfg.log[1].what = "SetIP"
       THEN \E gateway \in gateways :
               cfg' = [cfg EXCEPT !.gateway = gateway,
                                  !.reads = Append(@, GatewayKey(cfg.vifKey, cfg.isIPv6)),
                                  !.log = Append(@, GatewayLine(gateway, cfg.osType)),
                                  !.ret = "nil"]
       ELSE cfg' = [cfg EXCEPT !.ret = "err"]
    /\ calls' = calls \cup {"Read"}
    /\ loopPc' = "configured"
    /\ UNCHANGED <<Enabled, written, loops, runVars, osType, pending, timeVars, advWrite,
                   writeErr, listing, childrens, idx, vif, unseen>>

\* ConfigStaticIP: gateway, err := f.Client.Read(gatewatKey), its line, and
\* return nil.
ConfigGateway(gateways) ==
    /\ loopPc = "gateway"
    /\ \E gateway \in gateways :
          cfg' = [cfg EXCEPT !.gateway = gateway,
                             !.reads = Append(@, GatewayKey(cfg.vifKey, cfg.isIPv6)),
                             !.log = Append(@, GatewayLine(gateway, cfg.osType)),
                             !.ret = "nil"]
    /\ calls' = calls \cup {"Read"}
    /\ loopPc' = "configured"
    /\ UNCHANGED <<Enabled, written, loops, runVars, osType, pending, timeVars, advWrite,
                   writeErr, listing, childrens, idx, vif, unseen>>

\* Back in the loop after ConfigStaticIP returned; its result is dropped.
ConfigReturn ==
    /\ loopPc = "configured"
    /\ vif' = [vif EXCEPT !.reads = @ \o cfg.reads]
    /\ cfg' = NoCfg
    /\ loopPc' = AfterFamily(cfg.isIPv6)
    /\ UNCHANGED <<Enabled, written, loops, runVars, osType, pending, timeVars, advWrite,
                   writeErr, listing, childrens, idx, calls, unseen>>

\* select { case <-ticker: continue }: a tick is taken from the channel.
TakeTick ==
    /\ loopPc = "tick"
    /\ tickPending
    /\ tickPending' = FALSE
    /\ advWrite' = NoWrite
    /\ loopPc' = "enable"
    /\ UNCHANGED <<Enabled, written, loops, runVars, osType, pending, phase, sinceScan,
                   writeErr, scanVars, calls, unseen>>

(***************************************************************************)
(* The environment: time and the host.                                     *)
(***************************************************************************)
\* TimeAdvance with an unbuffered ticker channel: a tick that nobody is
\* waiting for in the select is lost.
TimeAdvanceUnbuffered ==
    /\ loopPc \notin {"none", "start"}
    /\ IF phase + 1 = TickPeriod
       THEN /\ phase' = 0
            /\ tickPending' = (loopPc = "tick")
       ELSE /\ phase' = phase + 1
            /\ tickPending' = tickPending
    /\ sinceScan' = IF sinceScan < TickPeriod THEN sinceScan + 1 ELSE TickPeriod
    /\ UNCHANGED <<Enabled, written, loops, runVars, loopPc, osType, pending, advWrite,
                   writeErr, scanVars, calls, unseen>>

\* One second passes.  Every TickPeriod seconds the ticker sends a tick,
\* which is dropped when the channel already holds one.
TimeAdvance ==
    /\ loopPc \notin {"none", "start"}
    /\ IF phase + 1 = TickPeriod
       THEN /\ phase' = 0
            /\ tickPending' = TRUE
       ELSE /\ phase' = phase + 1
            /\ tickPending' = tickPending
    /\ sinceScan' = IF sinceScan < TickPeriod THEN sinceScan + 1 ELSE TickPeriod
    /\ UNCHANGED <<Enabled, written, loops, runVars, loopPc, osType, pending, advWrite,
                   writeErr, scanVars, calls, unseen>>

\* The host changes something under controlKey: the store client queues a
\* watch event for the registered watch.
Notify ==
    /\ watches > 0
    /\ pending < MaxPending
    /\ pending' = pending + 1
    /\ unseen' = TRUE
    /\ UNCHANGED <<Enabled, written, loops, runVars, loopPc, osType, timeVars, advWrite,
                   writeErr, scanVars, calls>>

Next ==
    \/ RunWatch
    \/ RunGo
    \/ RunReturn
    \/ LoopStart
    \/ Enable
    \/ WatchEventCall
    \/ WatchEventOk
    \/ WatchEventFail
    \/ ScanList(DirResults)
    \/ LoopNext
    \/ ReadMac(MacResults)
    \/ ReadEnabled(FALSE, EnabledResults)
    \/ ReadEnabled(TRUE, EnabledResults)
    \/ ConfigAddress(AddressResults)
    \/ ConfigGateway(GatewayResults)
    \/ ConfigReturn
    \/ TakeTick
    \/ TimeAdvance
    \/ Notify

Spec == Init /\ [][Next]_vars

(***************************************************************************)
(* Properties.                                                             *)
(***************************************************************************)
\* The positions of the goroutine inside one iteration, after Enable().
AfterEnable == {"watchevent", "await", "list", "next", "mac", "enabled",
                "enabled6", "address", "gateway", "configured", "tick"}

\* ConfigStaticIP was invoked for the family in the evaluation of vif.
Applied(isIPv6) == \E i \in DOMAIN vif.applied : vif.applied[i] = isIPv6

\* C1: two consecutive scans are at least one tick period apart: whenever
\* WatchEvent returns ok and a scan starts, at least TickPeriod seconds have
\* passed since the previous scan started.
ScansOneTickPeriodApart ==
    [][(loopPc = "await" /\ loopPc' = "list") => sinceScan >= TickPeriod]_vars

\* C2: once Run has returned the error of a failed watch registration, the
\* goroutine has not been started and the feature has called no Write, no
\* WatchEvent, no Directory and no Read.
FailedWatchStartsNothing ==
    runErr = "err" =>
        /\ loopPc = "none"
        /\ watches = 0
        /\ calls \cap {"Write", "WatchEvent", "Directory", "Read"} = {}

\* Run has returned the error of the failed registration.
FailedWatchReached == runErr = "err" /\ runPc = "done" /\ calls = {"Watch"}

\* C3: Run returns an error exactly when the registration failed; after a
\* successful registration it starts the goroutine and its return is enabled
\* whatever the goroutine, the store and the ticker have done so far.
RunReturnsWithoutWaiting ==
    /\ runPc = "done" => (runErr = "err" <=> watches = 0)
    /\ runPc = "done" => (runErr = "nil" <=> loopPc # "none")
    /\ runPc # "done" => runErr = "none"
    /\ runPc = "go" => ENABLED RunGo
    /\ runPc = "return" => loopPc # "none" /\ ENABLED RunReturn

\* Run has returned nil while the goroutine has not taken a step: no
\* advertise write, no event, no tick and no scan has happened.
ReturnedBeforeLoopRan ==
    /\ runErr = "nil"
    /\ loopPc = "start"
    /\ calls = {"Watch"}
    /\ pending = 0
    /\ ~tickPending

\* C4: in every iteration, at every position after Enable(), the advertise
\* key has been written in this iteration with "1" when Enabled and "0"
\* otherwise; Enable() is never blocked, and a failed write leaves the
\* goroutine at the same position as a successful one, with the WatchEvent
\* call enabled.
AdvertisedEveryIteration ==
    /\ loopPc \in AfterEnable =>
          advWrite = [key |-> "control/feature-static-ip-setting",
                      val |-> IF Enabled THEN "1" ELSE "0"]
    /\ loopPc = "enable" => advWrite.key = "" /\ ENABLED Enable
    /\ loopPc = "watchevent" => ENABLED WatchEventCall
    /\ writeErr => loopPc \in {"watchevent", "await", "list"}

\* A later iteration (a scan has started before, a tick was taken since)
\* whose write of "1" failed, the loop already blocked in WatchEvent again.
FailedWriteLoopGoesOn ==
    /\ Enabled
    /\ writeErr
    /\ loopPc = "await"
    /\ sinceScan < TickPeriod
    /\ advWrite.val = "1"

\* C5: in the evaluation of an interface whose MAC was read, ConfigStaticIP
\* is invoked for a family exactly when the enabled key of the family was
\* read without error and its value is "1", and at most once per family.
AppliedIffEnabledIsOne ==
    /\ \A f \in BOOLEAN :
          /\ Applied(f) => vif.en[f] = StrResult("1")
          /\ vif.en[f] = StrResult("1") => Applied(f)
          /\ ~vif.en[f].read => ~Applied(f)
    /\ Len(vif.applied) = Cardinality({f \in BOOLEAN : Applied(f)})
    /\ cfg.active => Applied(cfg.isIPv6) /\ vif.mac = StrResult(cfg.mac)

\* An evaluation is complete with enabled = "1", applied, and enabled6 = "true",
\* not applied.
OneAppliedOtherValueNot ==
    /\ loopPc = "next"
    /\ vif.en[FALSE] = StrResult("1")
    /\ vif.en[TRUE] = StrResult("true")
    /\ vif.applied = <<FALSE>>

\* C6: the two families of an interface are evaluated independently: when the
\* evaluation of an interface whose MAC was read is complete, both enabled
\* keys have been read, each family was applied exactly when its own enabled
\* key is "1" whatever the other key read, and with IPv4 not enabled and
\* IPv6 enabled there is exactly one invocation, for IPv6.
FamiliesIndependent ==
    (loopPc = "next" /\ vif.mac.read /\ ~vif.mac.err) =>
        /\ vif.en[FALSE].read /\ vif.en[TRUE].read
        /\ \A f \in BOOLEAN : Applied(f) <=> vif.en[f] = StrResult("1")
        /\ (vif.en[FALSE] # StrResult("1") /\ vif.en[TRUE] = StrResult("1"))
              => vif.applied = <<TRUE>>
        /\ (vif.en[FALSE] = StrResult("1") /\ vif.en[TRUE] # StrResult("1"))
              => vif.applied = <<FALSE>>

\* IPv4 disabled by a read error, IPv6 enabled: one invocation, for IPv6.
OnlyIPv6Applied ==
    /\ loopPc = "next"
    /\ vif.en[FALSE] = StrErr
    /\ vif.en[TRUE] = StrResult("1")
    /\ vif.applied = <<TRUE>>
    /\ vif.reads = <<vif.path \o "/static-ip-setting/mac",
                     vif.path \o "/static-ip-setting/enabled",
                     vif.path \o "/static-ip-setting/enabled6",
                     vif.path \o "/static-ip-setting/address6",
                     vif.path \o "/static-ip-setting/gateway6">>

\* A line of the given kind was logged by the ConfigStaticIP invocation.
Logged(what) == \E i \in DOMAIN cfg.log : cfg.log[i].what = what

\* The addresses of AddressResults that are CIDR notation, and the gateways
\* of GatewayResults that are IP literals, with what they denote.
ValidAddresses ==
    { [val |-> <<"1", "0", ".", "0", ".", "0", ".", "2", "/", "2", "4">>,
       ip |-> <<10, 0, 0, 2>>, net |-> <<10, 0, 0, 0>>],
      [val |-> <<"f", "e", "8", "0", ":", ":", "2", "/", "6", "4">>,
       ip |-> <<254, 128, 0, 0, 0, 0, 0, 0, 0, 0, 0, 0, 0, 0, 0, 2>>,
       net |-> <<254, 128, 0, 0, 0, 0, 0, 0, 0, 0, 0, 0, 0, 0, 0, 0>>] }

ValidGateways ==
    { [val |-> <<"1", "0", ".", "0", ".", "0", ".", "1">>, ip |-> <<10, 0, 0, 1>>],
      [val |-> <<"f", "e", "8", "0", ":", ":", "1">>,
       ip |-> <<254, 128, 0, 0, 0, 0, 0, 0, 0, 0, 0, 0, 0, 0, 0, 1>>] }

AddressValid == ~cfg.address.err /\ \E a \in ValidAddresses : a.val = cfg.address.val

GatewayValid == ~cfg.gateway.err /\ \E g \in ValidGateways : g.val = cfg.gateway.val

\* C7 as claimed: when ConfigStaticIP has returned, an address or a gateway
\* was recorded only if both were: no partial configuration.
AllOrNothing ==
    loopPc = "configured" =>
        ((Logged("SetIP") \/ Logged("SetGateway"))
            => (Logged("SetIP") /\ Logged("SetGateway")))

\* C7 as amended: when ConfigStaticIP has returned, the address was recorded
\* exactly when the address itself was read and is CIDR notation, with its
\* parsed IP and network, and the gateway was recorded exactly when the
\* gateway itself was read and is an IP literal, with its parsed IP, each
\* whatever the other is.
EachFieldOnItsOwn ==
    loopPc = "configured" =>
        /\ Logged("SetIP") <=> AddressValid
        /\ Logged("SetGateway") <=> GatewayValid
        /\ \A i \in DOMAIN cfg.log :
              /\ cfg.log[i].what = "SetIP" =>
                    \E a \in ValidAddresses :
                       /\ a.val = cfg.address.val
                       /\ cfg.log[i].ip = a.ip
                       /\ cfg.log[i].net = a.net
              /\ cfg.log[i].what = "SetGateway" =>
                    \E g \in ValidGateways :
                       /\ g.val = cfg.gateway.val
                       /\ cfg.log[i].ip = g.ip
              /\ cfg.log[i].os = osType

\* ConfigStaticIP has returned with the address recorded and the gateway,
\* "10.0.0.256", rejected: a partial configuration.
AddressWithoutGateway ==
    /\ loopPc = "configured"
    /\ Logged("SetIP")
    /\ Logged("InvalidGateway")
    /\ ~Logged("SetGateway")

\* C8: every ConfigStaticIP invocation reads the address and then the
\* gateway, whatever the address read gave, logs exactly one line for each,
\* a diagnostic and no action for a field that could not be read or parsed,
\* and returns nil.
FieldsHandledIndependently ==
    /\ loopPc = "gateway" =>
          /\ cfg.address.read /\ ~cfg.gateway.read
          /\ Len(cfg.log) = 1
          /\ cfg.ret = "none"
    /\ loopPc = "configured" =>
          /\ cfg.address.read /\ cfg.gateway.read
          /\ cfg.reads = <<AddressKey(cfg.vifKey, cfg.isIPv6),
                           GatewayKey(cfg.vifKey, cfg.isIPv6)>>
          /\ Len(cfg.log) = 2
          /\ cfg.log[1].what \in {"SetIP", "ParseCIDRFailed", "SetIPFailed"}
          /\ cfg.log[2].what \in {"SetGateway", "InvalidGateway", "SetGatewayFailed"}
          /\ cfg.address.err <=> cfg.log[1].what = "SetIPFailed"
          /\ cfg.gateway.err <=> cfg.log[2].what = "SetGatewayFailed"
          /\ ~AddressValid => ~Logged("SetIP")
          /\ ~GatewayValid => ~Logged("SetGateway")
          /\ cfg.ret = "nil"

\* ConfigStaticIP has returned nil after the address "not-an-ip" failed to
\* parse and the gateway was nevertheless read, validated and recorded.
BadAddressGoodGateway ==
    /\ loopPc = "configured"
    /\ cfg.address.val = <<"n", "o", "t", "-", "a", "n", "-", "i", "p">>
    /\ cfg.log[1].what = "ParseCIDRFailed"
    /\ cfg.log[2].what = "SetGateway"
    /\ cfg.ret = "nil"

(***************************************************************************)
(* Discovery alone: GetChildrens applied to every directory listing of at  *)
(* most MaxLen characters, from the state in which the first scan starts.  *)
(***************************************************************************)
DirChars == {"0", "1", NUL}

AllDirResults ==
    {SeqErr} \cup
    UNION { {SeqResult(raw) : raw \in [1..n -> DirChars]} : n \in 0..MaxLen }

InitDiscover ==
    /\ Enabled \in BOOLEAN
    /\ runPc = "done"
    /\ runErr = "nil"
    /\ watches = 1
    /\ loopPc = "list"
    /\ osType \in {OTHER_OS, CENTOS}
    /\ pending = 0
    /\ tickPending = FALSE
    /\ phase = 0
    /\ sinceScan = 0
    /\ advWrite = [key |-> advertiseKey, val |-> IF Enabled THEN "1" ELSE "0"]
    /\ writeErr = FALSE
    /\ listing = SeqUnread
    /\ childrens = <<>>
    /\ idx = 0
    /\ vif = NoVif
    /\ cfg = NoCfg
    /\ calls = {"Watch", "Write", "WatchEvent"}
    /\ written = {advertiseKey}
    /\ loops = 1
    /\ unseen = TRUE

NextDiscover == ScanList(AllDirResults)

SpecDiscover == InitDiscover /\ [][NextDiscover]_vars

\* The maximal runs of characters other than NUL in a listing, in order.
RECURSIVE Runs(_, _)
Runs(raw, run) ==
    IF raw = <<>> THEN (IF run = <<>> THEN <<>> ELSE <<run>>)
    ELSE IF Head(raw) = NUL
    THEN (IF run = <<>> THEN <<>> ELSE <<run>>) \o Runs(Tail(raw), <<>>)
    ELSE Runs(Tail(raw), Append(run, Head(raw)))

\* The number of NUL characters of a listing.
RECURSIVE Nuls(_)
Nuls(raw) ==
    IF raw = <<>> THEN 0
    ELSE (IF Head(raw) = NUL THEN 1 ELSE 0) + Nuls(Tail(raw))

\* C9: after discovery over a listing that was read, childrens holds one path
\* per non-empty token of the listing, in listing order, each
\* "xenserver/device/vif" + "/" + token; of the Nuls + 1 tokens the empty
\* ones give no path.
DiscoveryKeepsNonEmptyTokens ==
    (loopPc = "next" /\ listing.read /\ ~listing.err) =>
        LET tokens == Runs(listing.val, <<>>)
        IN  /\ Len(childrens) = Len(tokens)
            /\ Len(childrens) <= Nuls(listing.val) + 1
            /\ \A i \in DOMAIN childrens :
                  childrens[i] = "xenserver/device/vif" \o "/" \o Str(tokens[i])

\* Discovery over "\x000\x001": an empty token, then "0" and "1".
DiscoveredTwoAmongEmpty ==
    /\ loopPc = "next"
    /\ listing = SeqResult(<<NUL, "0", NUL, "1">>)
    /\ childrens = <<"xenserver/device/vif/0", "xenserver/device/vif/1">>

(***************************************************************************)
(* The loop under fairness, over fewer store values: the caller of Run and *)
(* the goroutine keep running, time passes, and a WatchEvent call made     *)
(* with an event queued eventually returns it.                             *)
(***************************************************************************)
LiveEnabledResults == {StrResult("1"), StrErr}

LiveAddressResults ==
    { SeqResult(<<"1", "0", ".", "0", ".", "0", ".", "2", "/", "2", "4">>), SeqErr }

LiveGatewayResults ==
    { SeqResult(<<"1", "0", ".", "0", ".", "0", ".", "2", "5", "6">>), SeqErr }

LiveDirResults == { SeqErr, SeqResult(<<"0", NUL>>) }

LoopStep ==
    \/ LoopStart
    \/ Enable
    \/ WatchEventCall
    \/ ScanList(LiveDirResults)
    \/ LoopNext
    \/ ReadMac(MacResults)
    \/ ReadEnabled(FALSE, LiveEnabledResults)
    \/ ReadEnabled(TRUE, LiveEnabledResults)
    \/ ConfigAddress(LiveAddressResults)
    \/ ConfigGateway(LiveGatewayResults)
    \/ ConfigReturn
    \/ TakeTick

LiveNext ==
    \/ RunWatch
    \/ RunGo
    \/ RunReturn
    \/ LoopStep
    \/ WatchEventOk
    \/ WatchEventFail
    \/ TimeAdvance
    \/ Notify

LiveSpec ==
    /\ Init
    /\ [][LiveNext]_vars
    /\ WF_vars(RunGo)
    /\ WF_vars(LoopStep)
    /\ SF_vars(WatchEventOk)
    /\ WF_vars(TimeAdvance)

\* C10: every change notified on the control key is eventually followed by
\* a scan whose discovery starts after the notification.
NotifiedLeadsToScan ==
    unseen ~> (loopPc = "next" /\ idx = 0 /\ ~unseen)

\* A change is notified while the goroutine waits for the tick, the event of
\* an earlier change still queued.
NotifiedWhileDebouncing ==
    /\ unseen
    /\ loopPc = "tick"
    /\ ~tickPending
    /\ pending = MaxPending

\* C11: the only store key the feature ever writes is the advertise key: no
\* write goes to the error-code or error-msg key or to any other key under an
\* interface path, whatever was read, validated or applied; every Write call
\* is the advertise write of Enable.
OnlyAdvertiseKeyWritten ==
    /\ written \subseteq {"control/feature-static-ip-setting"}
    /\ advWrite.key \in {"", "control/feature-static-ip-setting"}
    /\ ("Write" \in calls) <=> (written # {})
    /\ loopPc \in AfterEnable => written = {"control/feature-static-ip-setting"}

\* Both fields of an enabled family failed validation and still nothing but
\* the advertise key has been written.
BothFieldsFailedNothingReported ==
    /\ loopPc = "configured"
    /\ Logged("ParseCIDRFailed")
    /\ Logged("InvalidGateway")
    /\ written = {advertiseKey}

\* The steps of the goroutine from one position to another: the for loop of
\* Run with the scan between WatchEvent and the select.
CycleEdges ==
    { <<"none", "start">>, <<"start", "enable">>,
      <<"enable", "watchevent">>, <<"watchevent", "await">>,
      <<"await", "list">>, <<"await", "tick">>,
      <<"list", "next">>, <<"next", "mac">>, <<"next", "tick">>,
      <<"mac", "next">>, <<"mac", "enabled">>,
      <<"enabled", "address">>, <<"enabled", "enabled6">>,
      <<"enabled6", "address">>, <<"enabled6", "next">>,
      <<"address", "gateway">>, <<"gateway", "configured">>,
      <<"configured", "enabled6">>, <<"configured", "next">>,
      <<"tick", "enable">> }

\* C12: the loop cycles Advertise, AwaitEvent, (Scan), Debounce, Advertise:
\* an iteration makes its one advertise write, then its one WatchEvent call,
\* then scans only if WatchEvent returned ok, then takes exactly one tick,
\* scan or no scan; the next advertise comes only from a taken tick; and the
\* started loop has no terminal position: it can always step, or waits for a
\* tick that time brings.
LoopCyclesForever ==
    /\ [](loopPc # "none" =>
             \/ ENABLED LoopStep
             \/ ENABLED WatchEventFail
             \/ loopPc = "tick" /\ ~tickPending /\ ENABLED TimeAdvance)
    /\ [][/\ loopPc' # loopPc => <<loopPc, loopPc'>> \in CycleEdges
          /\ loopPc = "enable" /\ loopPc' # loopPc =>
                advWrite'.key = advertiseKey /\ "Write" \in calls'
          /\ loopPc = "watchevent" /\ loopPc' # loopPc =>
                calls' = calls \cup {"WatchEvent"}
          /\ loopPc' = "list" /\ loopPc # "list" => pending' = pending - 1
          /\ loopPc = "tick" /\ loopPc' # loopPc => tickPending /\ ~tickPending'
          /\ calls' # calls /\ loopPc \notin {"none", "start"} => loopPc' # loopPc
         ]_vars

\* The second iteration advertises with no scan ever run: the failed
\* WatchEvent of the first was followed by a taken tick.
AdvertisingAfterTickWithoutScan ==
    /\ loopPc = "enable"
    /\ "WatchEvent" \in calls
    /\ "Directory" \notin calls
    /\ ~tickPending

\* C13: an interface whose MAC read failed is skipped whole: after the failed
\* read neither enabled key of it has been read and ConfigStaticIP has not
\* been invoked for it, the MAC key being its only read; and the scan goes on:
\* with interfaces left in the listing the loop's next step takes the next
\* one, it does not end the scan.
FailedMacSkipsInterfaceOnly ==
    vif.mac.err =>
        /\ loopPc = "next"
        /\ vif.path = childrens[idx]
        /\ vif.reads = <<vif.path \o "/static-ip-setting/mac">>
        /\ \A f \in BOOLEAN : ~vif.en[f].read /\ ~Applied(f)
        /\ ~cfg.active
        /\ idx < Len(childrens) =>
              /\ ENABLED (LoopNext /\ loopPc' = "mac" /\ idx' = idx + 1)
              /\ ~ENABLED (LoopNext /\ loopPc' # "mac")

\* The MAC read of the first of two discovered interfaces has failed.
FirstMacFailedSecondLeft ==
    /\ vif.mac.err
    /\ idx = 1
    /\ Len(childrens) = 2

\* C14: a failed Directory call gives the scan an empty sequence of
\* interfaces: no interface is read or applied in that scan, the listing is
\* not retried, and the loop's next step goes to the select on the ticker.
FailedListingScansNothing ==
    listing.err =>
        /\ childrens = <<>>
        /\ loopPc = "next"
        /\ idx = 0
        /\ vif = NoVif
        /\ cfg = NoCfg
        /\ ~ENABLED ScanList(DirResults)
        /\ ENABLED (LoopNext /\ loopPc' = "tick")
        /\ ~ENABLED (LoopNext /\ loopPc' # "tick")

\* The scan that a notification started has just had its listing fail.
ListingJustFailed ==
    /\ listing.err
    /\ loopPc = "next"
    /\ sinceScan = 0
    /\ "Directory" \in calls

\* The reads of one interface evaluated to its end, in the order of the code.
ReadsInOrder(path) ==
    <<path \o "/static-ip-setting/mac", path \o "/static-ip-setting/enabled">>
    \o (IF Applied(FALSE)
        THEN <<path \o "/static-ip-setting/address",
               path \o "/static-ip-setting/gateway">>
        ELSE <<>>)
    \o <<path \o "/static-ip-setting/enabled6">>
    \o (IF Applied(TRUE)
        THEN <<path \o "/static-ip-setting/address6",
               path \o "/static-ip-setting/gateway6">>
        ELSE <<>>)

\* The reads made so far for the interface under evaluation.
ReadsSoFar == vif.reads \o cfg.reads

\* C15: a scan evaluates every discovered interface exactly once, one after
\* the other in listing order: the listing is complete before the first
\* interface, the interfaces are taken at positions 1, 2, ... of the listing,
\* each with one MAC read, the scan ends only after the last position, and
\* the MAC, IPv4 and IPv6 steps of an interface are made in this order and
\* are finished before the next interface is taken.
InterfacesInListingOrder ==
    /\ [](/\ loopPc \in {"mac", "enabled", "enabled6", "address", "gateway",
                         "configured"} =>
                listing.read /\ idx \in 1..Len(childrens)
          /\ vif.path # "" =>
                /\ vif.path = childrens[idx]
                /\ Len(ReadsSoFar) <= Len(ReadsInOrder(vif.path))
                /\ ReadsSoFar = SubSeq(ReadsInOrder(vif.path), 1, Len(ReadsSoFar))
          /\ loopPc = "next" /\ vif.path # "" /\ ~vif.mac.err =>
                ReadsSoFar = ReadsInOrder(vif.path))
    /\ [][/\ idx' # idx =>
                /\ loopPc = "next"
                /\ \/ idx' = idx + 1 /\ loopPc' = "mac"
                   \/ idx = Len(childrens) /\ idx' = 0 /\ loopPc' = "tick"
          /\ loopPc = "next" /\ loopPc' # "next" => idx' # idx \/ childrens = <<>>
          /\ loopPc = "mac" /\ loopPc' # "mac" =>
                vif'.path = childrens[idx] /\ Len(vif'.reads) = 1
          /\ childrens' # childrens =>
                loopPc = "list" \/ (loopPc = "next" /\ loopPc' = "tick")
         ]_vars

\* The second of two interfaces has been evaluated to its end with both
\* families applied: seven reads in the order of the code.
SecondInterfaceFullyEvaluated ==
    /\ loopPc = "next"
    /\ idx = 2
    /\ Len(childrens) = 2
    /\ Len(vif.reads) = 7
    /\ vif.path = childrens[2]

(***************************************************************************)
(* Run() called again on the same instance.  Run is an exported method     *)
(* with no guard: a call after the previous call has returned registers    *)
(* the watch and starts a goroutine like the first.  No goroutine ever     *)
(* returns, so loops is also the number of loop goroutines running; the    *)
(* store and the loop positions are those of the first goroutine.          *)
(***************************************************************************)
RunAgain ==
    /\ runPc = "done"
    /\ watches < MaxRuns
    /\ runPc' = "idle"
    /\ runErr' = "none"
    /\ UNCHANGED <<Enabled, written, loops, watches, loopPc, osType, pending, timeVars,
                   advWrite, writeErr, scanVars, calls, unseen>>

NextRuns ==
    \/ LiveNext
    \/ RunAgain

SpecRuns ==
    /\ Init
    /\ [][NextRuns]_vars

\* C16: an instance has at most one loop goroutine running and its watch
\* registered once, however often Run() has been called on it.
OneLoopOneRegistration ==
    /\ loops <= 1
    /\ watches <= 1

\* C17: gateway validation is family-aware: a gateway action is recorded by
\* the apply step of a family only for an IP literal of that family, so an
\* IPv4 literal read under gateway6 and an IPv6 literal read under gateway
\* are rejected as invalid.
GatewayOfOwnFamily ==
    \A i \in DOMAIN cfg.log :
        cfg.log[i].what = "SetGateway" =>
            \E g \in ValidGateways :
                /\ g.val = cfg.gateway.val
                /\ Len(g.ip) = IF cfg.isIPv6 THEN 16 ELSE 4

\* What a scan does as a function of what it has read: the ConfigStaticIP
\* invocations from the two enabled values, and the lines from the address
\* and the gateway read and the OS variant.
InvocationsFor(en) ==
    (IF en[FALSE] = StrResult("1") THEN <<FALSE>> ELSE <<>>)
    \o (IF en[TRUE] = StrResult("1") THEN <<TRUE>> ELSE <<>>)

LinesFor(address, gateway, os) ==
    (IF address.read THEN <<AddressLine(address, os)>> ELSE <<>>)
    \o (IF gateway.read THEN <<GatewayLine(gateway, os)>> ELSE <<>>)

\* C18: scans keep no state.  Outside a scan the loop holds no listing, no
\* interface and no request; inside a scan the interfaces are those of the
\* listing this scan has read, the interface under evaluation is one of them,
\* and the invocations and the lines are the above functions of the values
\* this scan has read and of the OS variant fixed at the start of the loop,
\* whatever earlier scans have read or done.
ScanDependsOnItsReadsOnly ==
    /\ loopPc \in {"none", "start", "enable", "watchevent", "await", "list", "tick"} =>
          /\ listing = SeqUnread
          /\ childrens = <<>>
          /\ idx = 0
          /\ vif = NoVif
          /\ cfg = NoCfg
    /\ listing.read => childrens = GetChildrens(listing)
    /\ vif.path # "" =>
          /\ \E i \in DOMAIN GetChildrens(listing) : vif.path = GetChildrens(listing)[i]
          /\ vif.mac.read
          /\ vif.applied = InvocationsFor(vif.en)
    /\ cfg.active =>
          /\ cfg.vifKey = vif.path
          /\ cfg.mac = vif.mac.val
          /\ cfg.osType = osType
          /\ cfg.log = LinesFor(cfg.address, cfg.gateway, osType)

\* A scan has read an empty listing after an earlier scan has read keys of
\* interfaces: the interfaces that are gone are not evaluated, the loop's
\* only step is to the select.
ScanAfterInterfacesRemoved ==
    /\ loopPc = "next"
    /\ listing = SeqResult(<<>>)
    /\ "Read" \in calls
    /\ ENABLED (LoopNext /\ loopPc' = "tick")
    /\ ~ENABLED (LoopNext /\ loopPc' = "mac")

\* C19: an invocation of ConfigStaticIP reads only the keys of its family
\* under the interface being evaluated: first <interface>/static-ip-setting/
\* address and then /gateway for IPv4, /address6 and then /gateway6 for IPv6,
\* and no other key.
ApplyReadsOwnFamilyKeys ==
    LET path == childrens[idx]
        addressKey == path \o (IF cfg.isIPv6 THEN "/static-ip-setting/address6"
                                             ELSE "/static-ip-setting/address")
        gatewayKey == path \o (IF cfg.isIPv6 THEN "/static-ip-setting/gateway6"
                                             ELSE "/static-ip-setting/gateway")
    IN  /\ ~cfg.active => cfg.reads = <<>>
        /\ cfg.active =>
              /\ loopPc \in {"address", "gateway", "configured"}
              /\ loopPc = "address" => cfg.reads = <<>>
              /\ loopPc = "gateway" => cfg.reads = <<addressKey>>
              /\ loopPc = "configured" => cfg.reads = <<addressKey, gatewayKey>>

\* The IPv6 invocation for the second interface has returned after the IPv4
\* invocation for it: its reads are the two IPv6 keys of the second interface.
IPv6InvocationOfSecondInterface ==
    /\ loopPc = "configured"
    /\ cfg.isIPv6
    /\ Applied(FALSE)
    /\ idx = 2
    /\ cfg.reads = <<"xenserver/device/vif/1/static-ip-setting/address6",
                     "xenserver/device/vif/1/static-ip-setting/gateway6">>

\* C20: the ticker holds at most one tick.  A tick that fires is held
\* wherever the loop is, blocked in WatchEvent or scanning included, and one
\* that fires while a tick is held adds nothing; a held tick stays until the
\* select takes it, and taking it leaves none.  At the select the loop can go
\* on at once exactly when a tick is held, and otherwise waits for the ticker.
TickHeldUntilTaken ==
    /\ [](loopPc = "tick" =>
             /\ ENABLED TakeTick <=> tickPending
             /\ ~tickPending => ~ENABLED LoopStep /\ ENABLED TimeAdvance)
    /\ [][/\ phase' # phase /\ phase' = 0 => tickPending'
          /\ ~tickPending /\ tickPending' => phase' # phase /\ phase' = 0
          /\ tickPending /\ ~tickPending' => loopPc = "tick" /\ loopPc' = "enable"
          /\ loopPc = "tick" /\ loopPc' = "enable" => tickPending /\ ~tickPending'
         ]_vars

\* The loop has reached the select within a second of starting a scan and a
\* tick that fired three seconds ago, before the scan, is still held.
TickFiredBeforeScanStillHeld ==
    /\ loopPc = "tick"
    /\ tickPending
    /\ phase = TickPeriod - 1
    /\ sinceScan = 0
    /\ ENABLED TakeTick

====
